---------------------------- MODULE Spec2Model ----------------------------
(***************************************************************************)
(* Photon mapping integrator (src/include/integrator.h) and the render     *)
(* driver (src/main.cpp).                                                  *)
(*                                                                         *)
(* PhotonMapping::build traces photons from the light in two OpenMP        *)
(* parallel loops (global pass, caustic pass), appends photons to one      *)
(* shared vector under "omp critical", and hands the vector to the two     *)
(* photon maps.  PhotonMapping::integrate then evaluates camera rays       *)
(* recursively against the built maps.                                     *)
(*                                                                         *)
(* Floats are fixed-point numbers with FracBits fractional bits plus NaN    *)
(* and the two infinities; zero has a sign, as in IEEE arithmetic.         *)
(* The scene is a line of surfaces at positions 1..Len(scene.mat); a ray   *)
(* is an origin and a direction of +1 or -1.  In a closed scene the line   *)
(* is a ring, so no ray leaves the scene.                                  *)
(***************************************************************************)
EXTENDS Integers, Sequences, FiniteSets, TLC

\* ------------------------------------------------------------------ bounds
\* worker threads of the OpenMP team (omp_get_max_threads())
NThreads == 2
\* fractional bits of the fixed-point floats
FracBits == 2
\* bits of the sampler's seed type
SeedBits == 3

Threads == 0 .. (NThreads - 1)
NoThread == 0 - 1
Scale == 2 ^ FracBits
SeedMod == 2 ^ SeedBits

\* ------------------------------------------------------------------ floats
\* a float is NaN, an infinity (inf = 1 or -1), or the number v / Scale; neg
\* tells -0.0 from 0.0 and is FALSE for every other float
Fl(v) == [nan |-> FALSE, inf |-> 0, v |-> v, neg |-> FALSE]
NaN == [nan |-> TRUE, inf |-> 0, v |-> 0, neg |-> FALSE]
PosInf == [nan |-> FALSE, inf |-> 1, v |-> 0, neg |-> FALSE]
NegInf == [nan |-> FALSE, inf |-> 0 - 1, v |-> 0, neg |-> FALSE]
Zero == Fl(0)
NegZero == [nan |-> FALSE, inf |-> 0, v |-> 0, neg |-> TRUE]
One == Fl(Scale)
Half == Fl(Scale \div 2)
MinusOne == Fl(0 - Scale)

Abs(x) == IF x < 0 THEN 0 - x ELSE x
\* the sign of a float that is no NaN: -1, 0 or 1 (0 for both zeros)
Sign(a) == IF a.inf # 0 THEN a.inf ELSE IF a.v > 0 THEN 1 ELSE IF a.v < 0 THEN 0 - 1 ELSE 0
\* the sign bit of a float that is no NaN: set for -0.0 too
SignBit(a) == a.inf < 0 \/ a.v < 0 \/ a.neg
\* the infinity, the zero and the finite float of a given sign bit
Infinity(negative) == IF negative THEN NegInf ELSE PosInf
SignedZero(negative) == IF negative THEN NegZero ELSE Zero
Signed(negative, magnitude) ==
    IF magnitude = 0 THEN SignedZero(negative)
    ELSE Fl(IF negative THEN 0 - magnitude ELSE magnitude)

\* std::isnan
IsNaN(x) == x.nan
\* operator< on floats: false when either side is NaN; -0.0 < 0.0 is false
Less(a, b) ==
    /\ (~a.nan) /\ (~b.nan)
    /\ IF a.inf # 0 \/ b.inf # 0 THEN a.inf < b.inf ELSE a.v < b.v
\* operator>= on floats: false when either side is NaN
GreaterEq(a, b) ==
    /\ (~a.nan) /\ (~b.nan)
    /\ IF a.inf # 0 \/ b.inf # 0 THEN a.inf >= b.inf ELSE a.v >= b.v
\* operator== on floats: false when either side is NaN; -0.0 == 0.0 is true
FloatEq(a, b) == (~a.nan) /\ (~b.nan) /\ a.inf = b.inf /\ a.v = b.v
\* std::max(a, b) is (a < b) ? b : a
StdMax(a, b) == IF Less(a, b) THEN b ELSE a
\* std::min(a, b) is (b < a) ? b : a
StdMin(a, b) == IF Less(b, a) THEN b ELSE a
\* float product: the sign bit is the exclusive or of the operands' sign bits;
\* inf * 0 is NaN
Mul(a, b) ==
    IF a.nan \/ b.nan THEN NaN
    ELSE IF a.inf # 0 \/ b.inf # 0
    THEN IF Sign(a) * Sign(b) = 0 THEN NaN ELSE Infinity(SignBit(a) # SignBit(b))
    ELSE Signed(SignBit(a) # SignBit(b), (Abs(a.v) * Abs(b.v)) \div Scale)
\* float quotient: the sign bit is the exclusive or of the operands' sign bits;
\* 0/0 and inf/inf are NaN, x/0 is an infinity, x/inf is a zero
Div(a, b) ==
    IF a.nan \/ b.nan THEN NaN
    ELSE IF a.inf # 0
    THEN IF b.inf # 0 THEN NaN ELSE Infinity(SignBit(a) # SignBit(b))
    ELSE IF b.inf # 0 THEN SignedZero(SignBit(a) # SignBit(b))
    ELSE IF b.v = 0
    THEN IF a.v = 0 THEN NaN ELSE Infinity(SignBit(a) # SignBit(b))
    ELSE Signed(SignBit(a) # SignBit(b), (Abs(a.v) * Scale) \div Abs(b.v))
\* the product and the quotient are exact in the fixed-point range
MulExact(a, b) ==
    a.nan \/ b.nan \/ a.inf # 0 \/ b.inf # 0 \/ (Abs(a.v) * Abs(b.v)) % Scale = 0
DivExact(a, b) ==
    a.nan \/ b.nan \/ a.inf # 0 \/ b.inf # 0 \/ b.v = 0 \/ (Abs(a.v) * Scale) % Abs(b.v) = 0

\* Vec3f: three channels
Vec3(a, b, c) == <<a, b, c>>
VecMul(t, f) == [c \in 1..3 |-> Mul(t[c], f[c])]
VecDivScalar(t, q) == [c \in 1..3 |-> Div(t[c], q)]
VecMulExact(t, f) == \A c \in 1..3 : MulExact(t[c], f[c])
VecDivExact(t, q) == \A c \in 1..3 : DivExact(t[c], q)

White == Vec3(One, One, One)
Grey == Vec3(Half, Half, Half)
Tint == Vec3(One, Half, Zero)
Black == Vec3(Zero, Zero, Zero)
NegBlue == Vec3(One, One, MinusOne)
NaNBlue == Vec3(One, One, NaN)
NaNRed == Vec3(NaN, One, One)
NegGreen == Vec3(One, MinusOne, One)
Glare == Vec3(PosInf, One, Zero)

\* ------------------------------------------------------------------- scene
Dirs == {0 - 1, 1}
NoHit == [hit |-> FALSE, pos |-> 0, type |-> "NONE"]

\* Ray(origin, direction)
Ray(o, d) == [o |-> o, d |-> d]
NoRay == Ray(0, 1)

\* scene.intersect(ray, info): the first surface along the ray, if any; in a
\* closed scene the surfaces form a ring and every ray hits one
Intersect(sc, ray) ==
    LET q == ray.o + ray.d
        p == IF sc.closed THEN ((q - 1) % Len(sc.mat)) + 1 ELSE q
    IN  IF p \in DOMAIN sc.mat
        THEN [hit |-> TRUE, pos |-> p, type |-> sc.mat[p]]
        ELSE NoHit

\* uniform variates of getNext1D(), in [0, 1)
Variates == {Zero, Half}

\* ------------------------------------------------------------------- state
VARIABLES
    cfg,                \* PhotonMapping's const members and the base sampler's seed
    scene,              \* the scene: materials, light, emitted power, BSDF weights
    phase,              \* where build() is: init, global, globalBuilt, caustic, built
    remaining,          \* iterations of the running parallel loop not yet started
    samplers,           \* build()'s per-thread samplers
    photons,            \* build()'s shared std::vector<Photon>
    lock,               \* the thread inside "omp critical", or NoThread
    th,                 \* each worker thread's locals inside the loop body
    globalPhotonMap,    \* PhotonMapping::globalPhotonMap
    causticsPhotonMap,  \* PhotonMapping::causticsPhotonMap
    deps,               \* history: the photons each thread decided to deposit in this pass
    roulette,           \* history: each thread's latest russian roulette in this pass
    cout,               \* std::cout: how many of each diagnostic build() has printed
    stack,              \* the call stack of integrate(): frames, innermost last
    queries,            \* history: the queryKNearestPhotons calls made so far
    shade               \* history: the estimates computed at the latest diffuse hit

camVars == <<stack, queries, shade>>
buildVars == <<phase, remaining, samplers, photons, lock, th,
               globalPhotonMap, causticsPhotonMap, deps, roulette, cout>>
vars == <<cfg, scene, phase, remaining, samplers, photons, lock, th,
          globalPhotonMap, causticsPhotonMap, deps, roulette, cout, stack, queries, shade>>

\* the widths of int and of a float's significand
IntBits == 32
FloatMantissaBits == 24

IntMax == (2 ^ (IntBits - 2) - 1) * 2 + 1
IntMin == (0 - IntMax) - 1
MantissaLimit == 2 ^ FloatMantissaBits

\* a float of the constructor's arithmetic: the number m * 2^e
Binary(m, e) == [m |-> m, e |-> e]

\* the bits a magnitude x has beyond the significand's width
ExcessBits(x) ==
    CHOOSE s \in 0..(IntBits - FloatMantissaBits) :
        /\ x \div (2 ^ s) < MantissaLimit
        /\ s > 0 => x \div (2 ^ (s - 1)) >= MantissaLimit

\* the float nearest to x * 2^e, ties to the even significand
RoundToFloat(x, e) ==
    LET a == Abs(x)
        s == ExcessBits(a)
        q == a \div (2 ^ s)
        r == a % (2 ^ s)
        up == s > 0 /\ (r * 2 > 2 ^ s \/ (r * 2 = 2 ^ s /\ q % 2 = 1))
    IN  Binary((IF x < 0 THEN 0 - 1 ELSE 1) * (IF up THEN q + 1 ELSE q), e + s)

\* the conversion of an int to float
IntToFloat(n) ==
    IF n = IntMin THEN Binary(0 - MantissaLimit, IntBits - 1 - FloatMantissaBits)
                  ELSE RoundToFloat(n, 0)

\* what the conversion of a NaN or of an out-of-range float to int can give:
\* the behaviour is undefined; the builds give the lowest int (the
\* conversion instruction), 0 (the conversion folded at compile time) or the
\* nearest int
IntOutOfRange == {IntMin, 0, IntMax}

\* the conversion of a float to int: the fraction is discarded; the set of
\* the values it can give
FloatToInt(f) ==
    LET a == Abs(f.m)
    IN  IF f.e < 0 THEN {(IF f.m < 0 THEN 0 - 1 ELSE 1) * (a \div (2 ^ (0 - f.e)))}
        ELSE IF a <= IntMax \div (2 ^ f.e) THEN {f.m * (2 ^ f.e)}
        ELSE IF f.m < 0 /\ a = (IntMax \div (2 ^ f.e)) + 1 THEN {IntMin}
        ELSE IntOutOfRange

\* int(nPhotonsGlobal * nPhotonsCausticsMultiplier): the int is converted to
\* float, the product is a float, the member is the product converted to int
NPhotonsCaustics(nPhotonsGlobal, multiplier) ==
    IF multiplier.nan \/ multiplier.inf # 0 THEN IntOutOfRange
    ELSE LET n == IntToFloat(nPhotonsGlobal)
         IN  FloatToInt(RoundToFloat(n.m * multiplier.v, n.e - FracBits))

\* PhotonMapping's constructor: the member initialisers; the set of the
\* objects it can construct (one, unless the conversion to int is undefined)
PhotonMapping(nPhotonsGlobal, nEstimationGlobal, nPhotonsCausticsMultiplier, nEstimationCaustics, strictCalcDepth, maxDepth, seed) ==
    { [nPhotonsGlobal |-> nPhotonsGlobal,
       nEstimationGlobal |-> nEstimationGlobal,
       nPhotonsCaustics |-> c,
       nEstimationCaustics |-> nEstimationCaustics,
       finalGatheringDepth |-> strictCalcDepth,
       maxDepth |-> maxDepth,
       seed |-> seed] :
      c \in NPhotonsCaustics(nPhotonsGlobal, nPhotonsCausticsMultiplier) }

\* the iterations of "for (int i = 0; i < n; ++i)"
Iterations(n) == IF n > 0 THEN n ELSE 0

\* a default-constructed PhotonMap: no photons, no tree
EmptyMap == [photons |-> <<>>, nSet |-> 0, nBuild |-> 0]

\* a thread outside the loop body
IdleThread ==
    [pc |-> "idle", k |-> 0, throughput |-> Black, ray |-> NoRay,
     prev_specular |-> FALSE, info |-> NoHit, n |-> 0, hits |-> <<>>]

NoSampler == [seed |-> 0, users |-> {}]

\* nothing printed yet
NoOutput == [nan |-> 0, minus |-> 0]

\* no russian roulette was played yet on the thread's path
NoRoulette == [played |-> FALSE]

\* one russian roulette: the bounce, the probability, the variate drawn, the
\* throughput before it and after it, and whether the path ended ("break")
Roulette(k, q, u, before, after, ended) ==
    [played |-> TRUE, k |-> k, q |-> q, u |-> u, before |-> before, after |-> after, ended |-> ended]

\* Photon(throughput, position, wi)
Photon(throughput, position, wi) ==
    [throughput |-> throughput, position |-> position, wi |-> wi]

\* ------------------------------------------------------ photon tracing steps
\* variant: no NaN test
ThroughputNeverNaN(t) == FALSE

\* std::isnan(throughput[0]) || std::isnan(throughput[1]) || std::isnan(throughput[2])
ThroughputIsNaN(t) == IsNaN(t[1]) \/ IsNaN(t[2]) \/ IsNaN(t[3])

\* variant: the sign test leaves out the third channel
ThroughputIsMinusTwoChannels(t) == Less(t[1], Zero) \/ Less(t[2], Zero)

\* throughput[0] < 0 || throughput[1] < 0 || throughput[2] < 0
ThroughputIsMinus(t) == Less(t[1], Zero) \/ Less(t[2], Zero) \/ Less(t[3], Zero)

\* std::min(std::max(throughput[0], std::max(throughput[1], throughput[2])), 1.0f)
RussianRouletteProb(t) == StdMin(StdMax(t[1], StdMax(t[2], t[3])), One)

\* omp_get_thread_num(): the sampler a thread draws from
SamplerOf(t) == t

\* the seed build() gives sampler i: getSeed() * (i + 1) in the seed type
ThreadSeed(seed, i) == (seed * (i + 1)) % SeedMod

\* variant: the append is not inside a critical section
CanEnterUnguarded(t) == TRUE

\* "#pragma omp critical": a thread enters only when no thread is inside
CanEnterCritical(t) == lock = NoThread

\* photons.emplace_back(...): the element is stored at the size read on entry
EmplaceBack(vec, n, p) == SubSeq(vec, 1, n) \o <<p>>

\* the loop body of a path ends (break, or k reached maxDepth)
EndPath(t) == th' = [th EXCEPT ![t] = IdleThread]

\* "Error: Photon throughput is NaN!" is printed, then break
AbortNaN(t) == EndPath(t) /\ cout' = [cout EXCEPT !.nan = @ + 1]

\* "Error: Photon throughput is minus!" is printed, then break
AbortMinus(t) == EndPath(t) /\ cout' = [cout EXCEPT !.minus = @ + 1]

\* variant: the loop is left without waiting for the team (nowait)
JoinedNoBarrier == remaining = 0

\* the threads of the team have all left the parallel loop
Joined == remaining = 0 /\ \A t \in Threads : th[t].pc = "idle"

\* sampleRayFromLight and the loop's locals at the start of iteration i
StartPath(t, prevSpecular) ==
    /\ remaining > 0
    /\ th[t].pc = "idle"
    /\ \E power \in scene.Le, d \in Dirs :
          th' = [th EXCEPT ![t] = [IdleThread EXCEPT !.pc = "loop",
                                                     !.throughput = power,
                                                     !.prev_specular = prevSpecular,
                                                     !.ray = Ray(scene.light, d)]]
    /\ remaining' = remaining - 1
    /\ samplers' = [samplers EXCEPT ![SamplerOf(t)].users = @ \cup {t}]
    /\ roulette' = [roulette EXCEPT ![t] = NoRoulette]

\* variant: the roulette is played at every bounce
RouletteAppliesAlways(k) == TRUE

\* "if (k > 0)" around the russian roulette
RouletteApplies(k) == k > 0

\* russian roulette, sampleBxDF and the throughput and ray update
Scatter(t, prevSpecular) ==
    LET s == th[t]
        q == RussianRouletteProb(s.throughput)
    IN  \E u \in Variates, f \in scene.bsdf, d \in Dirs :
          IF RouletteApplies(s.k) /\ GreaterEq(u, q)
          THEN /\ EndPath(t)
               /\ roulette' = [roulette EXCEPT ![t] =
                                 Roulette(s.k, q, u, s.throughput, s.throughput, TRUE)]
          ELSE LET t1 == IF RouletteApplies(s.k) THEN VecDivScalar(s.throughput, q)
                                                ELSE s.throughput
               IN  /\ RouletteApplies(s.k) => VecDivExact(s.throughput, q)
                   /\ VecMulExact(t1, f)
                   /\ roulette' = IF RouletteApplies(s.k)
                                  THEN [roulette EXCEPT ![t] =
                                          Roulette(s.k, q, u, s.throughput, t1, FALSE)]
                                  ELSE roulette
                   /\ th' = [th EXCEPT ![t].pc = "loop",
                                       ![t].throughput = VecMul(t1, f),
                                       ![t].ray = Ray(s.info.pos, d),
                                       ![t].prev_specular = prevSpecular,
                                       ![t].k = s.k + 1]

\* ------------------------------------------------------------------- build
\* build(): clone the sampler for each thread and seed the clones
InitSamplers ==
    /\ phase = "init"
    /\ samplers' = [i \in Threads |-> [seed |-> ThreadSeed(cfg.seed, i), users |-> {}]]
    /\ phase' = "global"
    /\ remaining' = Iterations(cfg.nPhotonsGlobal)
    /\ UNCHANGED <<camVars, cout, roulette, cfg, scene, photons, lock, th, globalPhotonMap, causticsPhotonMap, deps>>

\* global pass: iteration start
GlobalStartPath(t) ==
    /\ phase = "global"
    /\ StartPath(t, FALSE)
    /\ UNCHANGED <<camVars, cout, cfg, scene, phase, photons, lock, globalPhotonMap, causticsPhotonMap, deps>>

\* variant: a photon is stored at every hit
GlobalDepositAnyHit(info) == TRUE

\* global pass: "if (bxdf_type == BxDFType::DIFFUSE)" guards the emplace_back
GlobalDepositHit(info) == info.type = "DIFFUSE"

\* global pass: loop test, throughput check, intersection, deposit decision
GlobalTrace(t) ==
    LET s == th[t]
        info == Intersect(scene, s.ray)
    IN  /\ phase = "global"
        /\ s.pc = "loop"
        /\ IF ~(s.k < cfg.maxDepth)
           THEN EndPath(t) /\ UNCHANGED <<deps, cout>>
           ELSE IF ThroughputIsNaN(s.throughput)
           THEN AbortNaN(t) /\ UNCHANGED deps
           ELSE IF ThroughputIsMinus(s.throughput)
           THEN AbortMinus(t) /\ UNCHANGED deps
           ELSE IF ~info.hit
           THEN EndPath(t) /\ UNCHANGED <<deps, cout>>
           ELSE IF GlobalDepositHit(info)
           THEN /\ th' = [th EXCEPT ![t].pc = "lock", ![t].info = info,
                                    ![t].hits = Append(@, info.type)]
                /\ deps' = [deps EXCEPT ![t] =
                              Append(@, Photon(s.throughput, info.pos, 0 - s.ray.d))]
                /\ UNCHANGED cout
           ELSE /\ th' = [th EXCEPT ![t].pc = "scatter", ![t].info = info,
                                    ![t].hits = Append(@, info.type)]
                /\ UNCHANGED <<deps, cout>>
        /\ UNCHANGED <<camVars, roulette, cfg, scene, phase, remaining, samplers, photons, lock,
                       globalPhotonMap, causticsPhotonMap>>

\* global pass: enter the critical section
GlobalEnter(t) ==
    /\ phase = "global"
    /\ th[t].pc = "lock"
    /\ CanEnterCritical(t)
    /\ lock' = t
    /\ th' = [th EXCEPT ![t].pc = "crit", ![t].n = Len(photons)]
    /\ UNCHANGED <<camVars, cout, roulette, cfg, scene, phase, remaining, samplers, photons,
                   globalPhotonMap, causticsPhotonMap, deps>>

\* global pass: emplace_back and leave the critical section
GlobalEmplace(t) ==
    LET s == th[t]
    IN  /\ phase = "global"
        /\ s.pc = "crit"
        /\ photons' = EmplaceBack(photons, s.n,
                                  Photon(s.throughput, s.info.pos, 0 - s.ray.d))
        /\ lock' = NoThread
        /\ th' = [th EXCEPT ![t].pc = "scatter"]
        /\ UNCHANGED <<camVars, cout, roulette, cfg, scene, phase, remaining, samplers,
                       globalPhotonMap, causticsPhotonMap, deps>>

\* global pass: russian roulette and the next direction
GlobalScatter(t) ==
    /\ phase = "global"
    /\ th[t].pc = "scatter"
    /\ Scatter(t, FALSE)
    /\ UNCHANGED <<camVars, cout, cfg, scene, phase, remaining, samplers, photons, lock,
                   globalPhotonMap, causticsPhotonMap, deps>>

\* after the global loop: globalPhotonMap.setPhotons(photons); build()
BuildGlobalMap ==
    /\ phase = "global"
    /\ Joined
    /\ globalPhotonMap' = [globalPhotonMap EXCEPT !.photons = photons,
                                                  !.nSet = @ + 1,
                                                  !.nBuild = @ + 1]
    /\ phase' = "globalBuilt"
    /\ roulette' = [t \in Threads |-> NoRoulette]
    /\ UNCHANGED <<camVars, cout, cfg, scene, remaining, samplers, photons, lock, th,
                   causticsPhotonMap, deps>>

\* between the passes: "if (finalGatheringDepth > 0)" then photons.clear()
BeginCausticPass ==
    /\ phase = "globalBuilt"
    /\ cfg.finalGatheringDepth > 0
    /\ photons' = <<>>
    /\ deps' = [t \in Threads |-> <<>>]
    /\ remaining' = Iterations(cfg.nPhotonsCaustics)
    /\ phase' = "caustic"
    /\ UNCHANGED <<camVars, cout, roulette, cfg, scene, samplers, lock, th, globalPhotonMap, causticsPhotonMap>>

\* between the passes: the caustic block is skipped and build() returns
SkipCausticPass ==
    /\ phase = "globalBuilt"
    /\ ~(cfg.finalGatheringDepth > 0)
    /\ phase' = "built"
    /\ UNCHANGED <<camVars, cout, roulette, cfg, scene, remaining, samplers, photons, lock, th,
                   globalPhotonMap, causticsPhotonMap, deps>>

\* variant: prev_specular starts true
CausticInitPrevSpecularTrue == TRUE

\* caustic pass: "bool prev_specular = false"
CausticInitPrevSpecular == FALSE

\* caustic pass: iteration start
CausticStartPath(t) ==
    /\ phase = "caustic"
    /\ StartPath(t, CausticInitPrevSpecular)
    /\ UNCHANGED <<camVars, cout, cfg, scene, phase, photons, lock, globalPhotonMap, causticsPhotonMap, deps>>

\* variant: no break after the emplace_back; the bounce goes on
CausticAfterDepositContinue(t) == th' = [th EXCEPT ![t].pc = "scatter"]

\* caustic pass: what follows the emplace_back: break
CausticAfterDeposit(t) == EndPath(t)

\* caustic pass: loop test, throughput check, intersection, deposit decision
CausticTrace(t) ==
    LET s == th[t]
        info == Intersect(scene, s.ray)
    IN  /\ phase = "caustic"
        /\ s.pc = "loop"
        /\ IF ~(s.k < cfg.maxDepth)
           THEN EndPath(t) /\ UNCHANGED <<deps, cout>>
           ELSE IF ThroughputIsNaN(s.throughput)
           THEN AbortNaN(t) /\ UNCHANGED deps
           ELSE IF ThroughputIsMinus(s.throughput)
           THEN AbortMinus(t) /\ UNCHANGED deps
           ELSE IF ~info.hit
           THEN EndPath(t) /\ UNCHANGED <<deps, cout>>
           ELSE IF (~s.prev_specular) /\ info.type = "DIFFUSE"
           THEN EndPath(t) /\ UNCHANGED <<deps, cout>>
           ELSE IF s.prev_specular /\ info.type = "DIFFUSE"
           THEN /\ th' = [th EXCEPT ![t].pc = "lock", ![t].info = info,
                                    ![t].hits = Append(@, info.type)]
                /\ deps' = [deps EXCEPT ![t] =
                              Append(@, Photon(s.throughput, info.pos, 0 - s.ray.d))]
                /\ UNCHANGED cout
           ELSE /\ th' = [th EXCEPT ![t].pc = "scatter", ![t].info = info,
                                    ![t].hits = Append(@, info.type)]
                /\ UNCHANGED <<deps, cout>>
        /\ UNCHANGED <<camVars, roulette, cfg, scene, phase, remaining, samplers, photons, lock,
                       globalPhotonMap, causticsPhotonMap>>

\* caustic pass: enter the critical section
CausticEnter(t) ==
    /\ phase = "caustic"
    /\ th[t].pc = "lock"
    /\ CanEnterCritical(t)
    /\ lock' = t
    /\ th' = [th EXCEPT ![t].pc = "crit", ![t].n = Len(photons)]
    /\ UNCHANGED <<camVars, cout, roulette, cfg, scene, phase, remaining, samplers, photons,
                   globalPhotonMap, causticsPhotonMap, deps>>

\* caustic pass: emplace_back, leave the critical section, break
CausticEmplace(t) ==
    LET s == th[t]
    IN  /\ phase = "caustic"
        /\ s.pc = "crit"
        /\ photons' = EmplaceBack(photons, s.n,
                                  Photon(s.throughput, s.info.pos, 0 - s.ray.d))
        /\ lock' = NoThread
        /\ CausticAfterDeposit(t)
        /\ UNCHANGED <<camVars, cout, roulette, cfg, scene, phase, remaining, samplers,
                       globalPhotonMap, causticsPhotonMap, deps>>

\* caustic pass: prev_specular update, russian roulette, next direction
CausticScatter(t) ==
    /\ phase = "caustic"
    /\ th[t].pc = "scatter"
    /\ Scatter(t, th[t].info.type = "SPECULAR")
    /\ UNCHANGED <<camVars, cout, cfg, scene, phase, remaining, samplers, photons, lock,
                   globalPhotonMap, causticsPhotonMap, deps>>

\* after the caustic loop: causticsPhotonMap.setPhotons(photons); build()
BuildCausticsMap ==
    /\ phase = "caustic"
    /\ Joined
    /\ causticsPhotonMap' = [causticsPhotonMap EXCEPT !.photons = photons,
                                                      !.nSet = @ + 1,
                                                      !.nBuild = @ + 1]
    /\ phase' = "built"
    /\ roulette' = [t \in Threads |-> NoRoulette]
    /\ UNCHANGED <<camVars, cout, cfg, scene, remaining, samplers, photons, lock, th,
                   globalPhotonMap, deps>>

\* ------------------------------------------------------------- integrate
\* the camera's position on the line
CameraPos == 0

NoShade == [depth |-> 0 - 1, terms |-> {}, gather |-> <<>>]

\* a stack frame of integrateRecursive or computeIndirectIlluminationRecursive;
\* left is the number of entries of dir_pairs the loop has not read yet
Frame(fn, depth, ray, pos) ==
    [fn |-> fn, depth |-> depth, ray |-> ray, pos |-> pos, stage |-> "enter", left |-> 0]

Top == stack[Len(stack)]
Pop == SubSeq(stack, 1, Len(stack) - 1)
SetTop(f) == [stack EXCEPT ![Len(stack)] = f]

\* info.hitPrimitive->hasAreaLight()
HasAreaLight(info) == info.pos = scene.light

\* the longest sequence sampleAllBxDF returns here
MaxSamples == 3

\* sampleAllBxDF: any finite sequence of directions, the empty one included;
\* on the line a direction is one of Dirs, whatever the incoming ray
SampleAllBxDF(ray) == UNION { [1..n -> Dirs] : n \in 0..MaxSamples }

\* computeRadianceWithPhotonMap: the query of the global map, the divisor
ComputeRadianceWithPhotonMap ==
    [map |-> "global", k |-> cfg.nEstimationGlobal, norm |-> cfg.nPhotonsGlobal,
     nSet |-> globalPhotonMap.nSet, nBuild |-> globalPhotonMap.nBuild]

\* computeCausticsWithPhotonMap: the query of the caustics map, the divisor
ComputeCausticsWithPhotonMap ==
    [map |-> "caustics", k |-> cfg.nEstimationGlobal, norm |-> cfg.nPhotonsCaustics,
     nSet |-> causticsPhotonMap.nSet, nBuild |-> causticsPhotonMap.nBuild]

\* variant: the test is strict
UseGlobalMapStrict(depth) == depth > cfg.finalGatheringDepth

\* the diffuse branch's test: "if (depth >= finalGatheringDepth)"
UseGlobalMap(depth) == depth >= cfg.finalGatheringDepth

\* variant: the test is strict
DepthExhaustedStrict(depth) == depth > cfg.maxDepth

\* "if (depth >= maxDepth) return Vec3f(0)", the first statement of both
\* recursive functions
DepthExhausted(depth) == depth >= cfg.maxDepth

\* variant: the final gather starts at the caller's depth
GatherStartDepthOfCaller(depth) == depth

\* computeIndirectIllumination: it is not given the caller's depth and starts
\* computeIndirectIlluminationRecursive at depth 0
GatherStartDepth(depth) == 0

\* main's render loop: integrator.integrate(ray, scene, sampler), after build()
Integrate ==
    /\ phase = "built"
    /\ stack = <<>>
    /\ \E d \in Dirs :
          stack' = <<Frame("integrate", 0, Ray(CameraPos, d), CameraPos)>>
    /\ shade' = NoShade
    /\ UNCHANGED <<buildVars, cfg, scene, queries>>

\* integrateRecursive from its entry to its first call or its return
IntegrateRecursive ==
    LET f == Top
        info == Intersect(scene, f.ray)
    IN  /\ stack # <<>>
        /\ f.fn = "integrate"
        /\ f.stage = "enter"
        /\ IF DepthExhausted(f.depth)
           THEN stack' = Pop /\ UNCHANGED <<queries, shade>>
           ELSE IF ~info.hit \/ HasAreaLight(info)
           THEN stack' = Pop /\ UNCHANGED <<queries, shade>>
           ELSE IF info.type = "DIFFUSE"
           THEN IF UseGlobalMap(f.depth)
                THEN /\ queries' = queries \cup {ComputeRadianceWithPhotonMap}
                     /\ shade' = [depth |-> f.depth, terms |-> {"Lg"}, gather |-> <<>>]
                     /\ stack' = Pop
                ELSE /\ queries' = queries \cup {ComputeCausticsWithPhotonMap}
                     /\ shade' = [depth |-> f.depth, terms |-> {"Ld", "Lc"},
                                  gather |-> <<GatherStartDepth(f.depth)>>]
                     /\ stack' = Append(SetTop([f EXCEPT !.stage = "gather"]),
                                        Frame("gather", GatherStartDepth(f.depth),
                                              f.ray, info.pos))
           ELSE IF info.type = "SPECULAR"
           THEN IF f.depth >= 3
                THEN /\ stack' = SetTop([f EXCEPT !.stage = "loop", !.left = 1,
                                                   !.pos = info.pos])
                     /\ UNCHANGED <<queries, shade>>
                ELSE \E dir_pairs \in SampleAllBxDF(f.ray) :
                       /\ stack' = SetTop([f EXCEPT !.stage = "loop",
                                                    !.left = Len(dir_pairs),
                                                    !.pos = info.pos])
                       /\ UNCHANGED <<queries, shade>>
           ELSE stack' = Pop /\ UNCHANGED <<queries, shade>>
        /\ UNCHANGED <<buildVars, cfg, scene>>

\* the directions an entry of dir_pairs, or sampleBxDF's dir, can hold
NextDirs(f) ==
    IF f.depth >= 3
    THEN Dirs
    ELSE { dir_pairs[Len(dir_pairs)] : dir_pairs \in SampleAllBxDF(f.ray) \ {<<>>} }

\* integrateRecursive, specular branch: the next recursive call, or the
\* return.  Each entry of dir_pairs is read once, by this loop, and nothing
\* relates one entry to another: the frame keeps the number of entries left,
\* and the direction of an entry is drawn when the loop reads it
IntegrateNextRay ==
    LET f == Top
    IN  /\ stack # <<>>
        /\ f.fn = "integrate"
        /\ f.stage = "loop"
        /\ IF f.left = 0
           THEN stack' = Pop
           ELSE \E dir \in NextDirs(f) :
                  stack' = Append(SetTop([f EXCEPT !.left = @ - 1]),
                                  Frame("integrate", f.depth + 1,
                                        Ray(f.pos, dir), f.pos))
        /\ UNCHANGED <<buildVars, cfg, scene, queries, shade>>

\* integrateRecursive, diffuse branch: the final gather returned; return Ld + Lc + Li
IntegrateSum ==
    LET f == Top
    IN  /\ stack # <<>>
        /\ f.fn = "integrate"
        /\ f.stage = "gather"
        /\ shade' = [shade EXCEPT !.terms = @ \cup {"Li"}]
        /\ stack' = Pop
        /\ UNCHANGED <<buildVars, cfg, scene, queries>>

\* computeIndirectIlluminationRecursive from its entry to its call or return
ComputeIndirectIlluminationRecursive ==
    LET f == Top
    IN  /\ stack # <<>>
        /\ f.fn = "gather"
        /\ f.stage = "enter"
        /\ IF DepthExhausted(f.depth)
           THEN stack' = Pop /\ UNCHANGED queries
           ELSE \E d \in Dirs :
                  LET ray_fg == Ray(f.pos, d)
                      info_fg == Intersect(scene, ray_fg)
                  IN  IF ~info_fg.hit
                      THEN stack' = Pop /\ UNCHANGED queries
                      ELSE IF info_fg.type = "DIFFUSE"
                      THEN /\ queries' = queries \cup {ComputeRadianceWithPhotonMap}
                           /\ stack' = Pop
                      ELSE IF info_fg.type = "SPECULAR"
                      THEN /\ stack' = Append(SetTop([f EXCEPT !.stage = "wait"]),
                                              Frame("gather", f.depth + 1, ray_fg,
                                                    info_fg.pos))
                           /\ UNCHANGED queries
                      ELSE stack' = Pop /\ UNCHANGED queries
        /\ UNCHANGED <<buildVars, cfg, scene, shade>>

\* computeIndirectIlluminationRecursive: the recursive call returned
GatherReturn ==
    LET f == Top
    IN  /\ stack # <<>>
        /\ f.fn = "gather"
        /\ f.stage = "wait"
        /\ stack' = Pop
        /\ UNCHANGED <<buildVars, cfg, scene, queries, shade>>

\* ---------------------------------------------------------- specifications
\* the state after PhotonMapping's construction, before build()
InitWith(Configs, Scenes) ==
    /\ cfg \in Configs
    /\ scene \in Scenes
    /\ phase = "init"
    /\ remaining = 0
    /\ samplers = [t \in Threads |-> NoSampler]
    /\ photons = <<>>
    /\ lock = NoThread
    /\ th = [t \in Threads |-> IdleThread]
    /\ globalPhotonMap = EmptyMap
    /\ causticsPhotonMap = EmptyMap
    /\ deps = [t \in Threads |-> <<>>]
    /\ roulette = [t \in Threads |-> NoRoulette]
    /\ cout = NoOutput
    /\ stack = <<>>
    /\ queries = {}
    /\ shade = NoShade

\* bounds of the inputs: path depth of the single-path runs, paths and depth
\* of the parallel runs
MaxDepth == 3
ParPhotons == 2

\* single-path runs: at most one path per pass.  A path goes to any depth up
\* to MaxDepth when it is the only path of the run (the other pass has no
\* iteration: a multiplier of 0 or below, or a photon count below 0 with a
\* negative multiplier); when both passes trace a path, to depth 2
PathMultipliers == {Zero, One, MinusOne, Fl((3 * Scale) \div 2)}

PathConfigs ==
    UNION { PhotonMapping(n, 1, m, 1, fg, md, 1) :
              n \in (0 - 1)..1, m \in PathMultipliers, fg \in 0..1, md \in 1..MaxDepth }

OnePathConfigs ==
    { c \in PathConfigs :
        \/ c.maxDepth <= 2
        \/ c.finalGatheringDepth <= 0
        \/ c.nPhotonsGlobal <= 0
        \/ c.nPhotonsCaustics <= 0 }

\* scenes: materials along the line, the emitter, the light's emitted power
\* over its sampling density, the BSDF weights f * cos / pdf
PathScenes ==
    { [mat |-> <<"DIFFUSE", "DIFFUSE">>, light |-> 1, closed |-> FALSE,
       Le |-> {White, NaNBlue, NegGreen}, bsdf |-> {White, Grey, Black, NegBlue, NaNRed}],
      [mat |-> <<"DIFFUSE", "SPECULAR", "DIFFUSE">>, light |-> 1, closed |-> FALSE,
       Le |-> {White, Tint}, bsdf |-> {White, Grey, Tint, NaNBlue, NegBlue}],
      [mat |-> <<"SPECULAR", "SPECULAR", "SPECULAR", "DIFFUSE">>, light |-> 1, closed |-> FALSE,
       Le |-> {White}, bsdf |-> {White, Grey, Black, NegBlue, Glare}] }

Init == InitWith(OnePathConfigs, PathScenes)

\* parallel runs: up to ParPhotons paths per pass, shared among the threads
ParConfigs ==
    UNION { PhotonMapping(n, 1, One, 1, fg, 2, 1) : n \in 0..ParPhotons, fg \in 0..1 }

ParScenes ==
    { [mat |-> <<"DIFFUSE", "SPECULAR", "DIFFUSE">>, light |-> 1, closed |-> FALSE,
       Le |-> {White}, bsdf |-> {White}],
      [mat |-> <<"DIFFUSE", "DIFFUSE">>, light |-> 1, closed |-> FALSE,
       Le |-> {White}, bsdf |-> {Grey}] }

ParInit == InitWith(ParConfigs, ParScenes)

BuildNext ==
    \/ InitSamplers
    \/ BuildGlobalMap
    \/ BeginCausticPass
    \/ SkipCausticPass
    \/ BuildCausticsMap
    \/ \E t \in Threads :
          \/ GlobalStartPath(t)
          \/ GlobalTrace(t)
          \/ GlobalEnter(t)
          \/ GlobalEmplace(t)
          \/ GlobalScatter(t)
          \/ CausticStartPath(t)
          \/ CausticTrace(t)
          \/ CausticEnter(t)
          \/ CausticEmplace(t)
          \/ CausticScatter(t)

Spec == Init /\ [][BuildNext]_vars

SpecPar == ParInit /\ [][BuildNext]_vars

\* the whole program: build(), then calls of integrate()
RenderDepth == 4

AllRenderConfigs ==
    UNION { PhotonMapping(n, eg, m, ec, fg, md, 1) :
              n \in 0..1, eg \in 1..2, m \in {One, MinusOne}, ec \in {2},
              fg \in (0 - 1)..2, md \in 1..RenderDepth }

\* every build to depth 2; deeper, the builds that trace a path in each pass
\* they run and ask the global map for one photon
RenderConfigs ==
    { c \in AllRenderConfigs :
        \/ c.maxDepth <= 2
        \/ c.nPhotonsGlobal = 1 /\ c.nPhotonsCaustics = 1 /\ c.nEstimationGlobal = 1 }

RenderScenes ==
    { [mat |-> <<"DIFFUSE", "SPECULAR", "DIFFUSE", "DIFFUSE">>, light |-> 4, closed |-> FALSE,
       Le |-> {White}, bsdf |-> {White}],
      [mat |-> <<"SPECULAR", "SPECULAR", "DIFFUSE">>, light |-> 3, closed |-> FALSE,
       Le |-> {White}, bsdf |-> {White}],
      [mat |-> <<"SPECULAR", "DIFFUSE", "DIFFUSE">>, light |-> 3, closed |-> FALSE,
       Le |-> {White}, bsdf |-> {White}],
      [mat |-> <<"SPECULAR", "SPECULAR">>, light |-> 0, closed |-> TRUE,
       Le |-> {White}, bsdf |-> {White}] }

RenderInit == InitWith(RenderConfigs, RenderScenes)

RenderNext ==
    \/ BuildNext
    \/ Integrate
    \/ IntegrateRecursive
    \/ IntegrateNextRay
    \/ IntegrateSum
    \/ ComputeIndirectIlluminationRecursive
    \/ GatherReturn

SpecRender == RenderInit /\ [][RenderNext]_vars

\* a step of the thread that runs integrate(): it is never held up
IntegrateStep ==
    \/ IntegrateRecursive
    \/ IntegrateNextRay
    \/ IntegrateSum
    \/ ComputeIndirectIlluminationRecursive
    \/ GatherReturn

\* what the maps hold does not steer integrate()'s recursion, which reads
\* maxDepth, finalGatheringDepth and the scene: to any depth after the builds
\* that trace no path or run the global pass alone, to depth 2 after those
\* that trace a path in each pass
TerminationConfigs ==
    { c \in AllRenderConfigs :
        /\ c.nEstimationGlobal = 1
        /\ \/ c.nPhotonsGlobal = 0
           \/ c.nPhotonsCaustics = 1 /\ c.finalGatheringDepth <= 0
           \/ c.nPhotonsCaustics = 1 /\ c.maxDepth <= 2 }

TerminationInit == InitWith(TerminationConfigs, RenderScenes)

\* the whole program, where a call of integrate() that can go on does go on
SpecRenderFair == TerminationInit /\ [][RenderNext]_vars /\ WF_vars(IntegrateStep)

\* build() for every seed of the sampler it is given
SeedConfigs ==
    UNION { PhotonMapping(1, 1, One, 1, fg, 2, seed) :
              fg \in 0..1, seed \in 0..(SeedMod - 1) }

SeedInit == InitWith(SeedConfigs, ParScenes)

SpecSeed == SeedInit /\ [][BuildNext]_vars

\* several paths per pass, some with a NaN or a negative throughput
AbortConfigs ==
    UNION { PhotonMapping(n, 1, One, 1, fg, 2, 1) : n \in 1..2, fg \in 0..1 }

AbortScenes ==
    { [mat |-> <<"DIFFUSE", "SPECULAR", "DIFFUSE">>, light |-> 1, closed |-> FALSE,
       Le |-> {White, NaNBlue}, bsdf |-> {White, NegGreen}] }

AbortInit == InitWith(AbortConfigs, AbortScenes)

SpecAbort == AbortInit /\ [][BuildNext]_vars

\* ------------------------------------------------------------ properties
\* no channel is NaN or negative
ValidPower(t) == \A c \in 1..3 : (~t[c].nan) /\ Sign(t[c]) >= 0

AllValid(vec) == \A i \in 1..Len(vec) : ValidPower(vec[i].throughput)

\* the number of entries of a sequence equal to x
Count(seq, x) == Cardinality({i \in 1..Len(seq) : seq[i] = x})

AllDiffuse == \A p \in DOMAIN scene.mat : scene.mat[p] = "DIFFUSE"

AtDeposit(t) == th[t].pc \in {"lock", "crit"}

\* C1: every photon in the shared vector and in either photon map has a
\* throughput with no NaN and no negative channel, whatever the later samples
\* of its path do to the path's throughput.
C1_DepositedPowerValid ==
    /\ AllValid(photons)
    /\ AllValid(globalPhotonMap.photons)
    /\ AllValid(causticsPhotonMap.photons)

\* C1 witness: a path that has stored a photon holds a NaN or negative
\* throughput after a later update.
C1_Witness ==
    \E t \in Threads :
        /\ th[t].pc = "loop"
        /\ th[t].k > 0
        /\ ~ValidPower(th[t].throughput)
        /\ deps[t] # <<>>
        /\ photons # <<>>

\* C2: in a scene whose surfaces are all Diffuse the caustic pass stores no
\* photon: the shared vector stays empty during the pass and the caustics map
\* is empty after build().
C2_DiffuseSceneNoCaustics ==
    AllDiffuse =>
        /\ causticsPhotonMap.photons = <<>>
        /\ phase = "caustic" => photons = <<>>

\* C2 witness: the caustic pass traced a path in an all-Diffuse scene and the
\* caustics map was built.
C2_Witness ==
    /\ AllDiffuse
    /\ phase = "built"
    /\ cfg.nPhotonsCaustics > 0
    /\ causticsPhotonMap.nBuild = 1

\* C7: in the caustic pass a photon is stored at bounce k only when k >= 1, the
\* hit is Diffuse and the hits of bounces 0..k-1 were all Specular; a path that
\* goes on past a hit has hit Specular surfaces only, so it ends at its first
\* Diffuse hit and stores at most one photon.
C7_CausticPathForm ==
    phase = "caustic" =>
        \A t \in Threads :
            LET h == th[t].hits
                k == th[t].k
            IN  /\ \A j \in 1..Len(h) :
                      h[j] = "DIFFUSE" => (j = Len(h) /\ j >= 2 /\ AtDeposit(t))
                /\ AtDeposit(t) =>
                      /\ k >= 1
                      /\ Len(h) = k + 1
                      /\ h[k + 1] = "DIFFUSE"
                      /\ th[t].prev_specular
                      /\ \A j \in 1..k : h[j] = "SPECULAR"
                /\ Len(deps[t]) <= 1
                /\ Len(photons) <= Iterations(cfg.nPhotonsCaustics) - remaining

\* C7 witness: a caustic photon is being stored at bounce 2 (path L S S D).
C7_Witness ==
    /\ phase = "caustic"
    /\ \E t \in Threads : th[t].pc = "crit" /\ th[t].k = 2

\* C8: in the global pass (one path traced) the photons stored so far are as
\* many as the Diffuse hits of the path, never more than maxDepth; after the
\* deposit block of a Diffuse hit the last photon stored is the throughput of
\* the start of the bounce, the hit position and -ray.direction, and a
\* Specular hit stores nothing.
C8_GlobalDeposits ==
    phase = "global" =>
        \A t \in Threads :
            LET s == th[t]
            IN  /\ Len(photons) <= cfg.maxDepth
                /\ s.pc \in {"loop", "scatter"} =>
                      Len(photons) = Count(s.hits, "DIFFUSE")
                /\ s.pc \in {"lock", "crit"} =>
                      Len(photons) + 1 = Count(s.hits, "DIFFUSE")
                /\ (s.pc = "scatter" /\ s.info.type = "DIFFUSE") =>
                      photons[Len(photons)] =
                          [throughput |-> s.throughput, position |-> s.info.pos,
                           wi |-> 0 - s.ray.d]
                /\ s.pc # "idle" => Len(s.hits) = s.k + (IF s.pc = "loop" THEN 0 ELSE 1)

\* C8 witness: after Specular hits that stored nothing, a path has stored a
\* photon at bounce 2 with a throughput that roulette and the BSDF updates
\* changed from the emitted one.
C8_Witness ==
    /\ phase = "global"
    /\ \E t \in Threads :
          /\ th[t].pc = "scatter"
          /\ th[t].k = 2
          /\ th[t].info.type = "DIFFUSE"
          /\ th[t].hits[1] = "SPECULAR"
          /\ Len(photons) = 1
          /\ photons[1].throughput \notin scene.Le

\* the photons the threads decided to store in this pass, thread 0's first
RECURSIVE DepsFrom(_)
DepsFrom(t) == IF t \in Threads THEN deps[t] \o DepsFrom(t + 1) ELSE <<>>

\* a sequence as a multiset
BagOf(seq) == [x \in {seq[i] : i \in 1..Len(seq)} |-> Count(seq, x)]

CausticQueries == {q \in queries : q.map = "caustics"}
GlobalQueries == {q \in queries : q.map = "global"}

\* C3: the caustic estimate asks the caustics map for nEstimationCaustics
\* photons and divides by nPhotonsCaustics; the global estimate asks the
\* global map for nEstimationGlobal photons and divides by nPhotonsGlobal.
\* The code asks the caustics map for nEstimationGlobal photons.
C3_EachMapItsOwnK ==
    /\ \A q \in CausticQueries :
          q.k = cfg.nEstimationCaustics /\ q.norm = cfg.nPhotonsCaustics
    /\ \A q \in GlobalQueries :
          q.k = cfg.nEstimationGlobal /\ q.norm = cfg.nPhotonsGlobal

\* C4: the caustic pass runs exactly when finalGatheringDepth > 0; with
\* finalGatheringDepth = 0 the caustics map stays as constructed, it is never
\* queried, no final gather is started, and a diffuse hit is shaded with the
\* global-map estimate alone.
C4_CausticPassGuard ==
    /\ phase = "caustic" => cfg.finalGatheringDepth > 0
    /\ phase = "built" =>
          (causticsPhotonMap.nBuild = 1 <=> cfg.finalGatheringDepth > 0)
    /\ cfg.finalGatheringDepth = 0 =>
          /\ causticsPhotonMap = EmptyMap
          /\ CausticQueries = {}
          /\ \A i \in 1..Len(stack) : stack[i].fn = "integrate"
          /\ shade.terms \subseteq {"Lg"}

\* C4 witness: with finalGatheringDepth = 0 a camera ray was shaded at a
\* non-emitter diffuse hit.
C4_Witness ==
    /\ cfg.finalGatheringDepth = 0
    /\ phase = "built"
    /\ shade.terms = {"Lg"}
    /\ GlobalQueries # {}

\* C5: the order of the photons build() hands to a photon map does not depend
\* on the interleaving of the threads: it is the order of the run in which
\* the threads reach the critical section in thread order.  (Each thread's own
\* photons are fixed by its sampler, whose seed is fixed.)
C5_PhotonOrderFixed ==
    /\ phase = "globalBuilt" => globalPhotonMap.photons = DepsFrom(0)
    /\ (phase = "built" /\ causticsPhotonMap.nSet = 1) =>
          causticsPhotonMap.photons = DepsFrom(0)

\* C6: a queried map had setPhotons and build called exactly once before the
\* query; integrate() runs only after build() returned; a map is set only
\* when no thread of its pass is still tracing; the caustics map is neither
\* built nor queried when finalGatheringDepth <= 0.
C6_BuiltOnceBeforeQuery ==
    /\ \A q \in queries : q.nSet = 1 /\ q.nBuild = 1
    /\ stack # <<>> => phase = "built"
    /\ (\E t \in Threads : th[t].pc # "idle") =>
          \/ phase = "global" /\ globalPhotonMap.nSet = 0
          \/ phase = "caustic" /\ causticsPhotonMap.nSet = 0
    /\ globalPhotonMap.nSet <= 1 /\ globalPhotonMap.nBuild = globalPhotonMap.nSet
    /\ causticsPhotonMap.nSet <= 1 /\ causticsPhotonMap.nBuild = causticsPhotonMap.nSet
    /\ cfg.finalGatheringDepth <= 0 =>
          causticsPhotonMap.nBuild = 0 /\ CausticQueries = {}

\* C6 witness: both maps have been queried by integrate().
C6_Witness ==
    /\ CausticQueries # {}
    /\ GlobalQueries # {}
    /\ globalPhotonMap.photons # <<>>

\* C9: at most one thread is inside the critical section; while a pass runs
\* the shared vector holds exactly the decided deposits that have left the
\* critical section; the vector handed to each map holds exactly one record
\* per deposit of that map's pass.
C9_AppendsSerialized ==
    /\ Cardinality({t \in Threads : th[t].pc = "crit"}) <= 1
    /\ phase \in {"global", "caustic"} =>
          Len(photons) + Cardinality({t \in Threads : AtDeposit(t)}) = Len(DepsFrom(0))
    /\ phase = "globalBuilt" =>
          BagOf(globalPhotonMap.photons) = BagOf(DepsFrom(0))
    /\ (phase = "built" /\ causticsPhotonMap.nSet = 1) =>
          BagOf(causticsPhotonMap.photons) = BagOf(DepsFrom(0))

\* C9 witness: the global map was set after two threads each stored a photon.
C9_Witness ==
    /\ phase = "globalBuilt"
    /\ \A t \in {0, 1} : deps[t] # <<>>
    /\ Len(globalPhotonMap.photons) >= 2

\* C10: after the samplers are initialised, sampler i has the seed
\* seed * (i + 1) in the seed type, only thread i draws from it, and the seeds
\* of two different threads are different.
C10_ThreadSeedsDistinct ==
    phase # "init" =>
        /\ \A i \in Threads :
              /\ samplers[i].seed = (cfg.seed * (i + 1)) % SeedMod
              /\ samplers[i].users \subseteq {i}
        /\ \A i, j \in Threads : i # j => samplers[i].seed # samplers[j].seed

\* the largest channel of a throughput without NaN
MaxChannel(t) ==
    CHOOSE x \in {t[c] : c \in 1..3} :
        \A c \in 1..3 : t[c].inf < x.inf \/ (t[c].inf = x.inf /\ t[c].v <= x.v)

\* the throughputs one BSDF sample can turn t into
Scattered(t) == {VecMul(t, f) : f \in scene.bsdf}

\* C11: in both passes no roulette is played at bounce 0, and one is played at
\* every later bounce that reaches it: q is min(largest channel, 1), the
\* variate u is in [0, 1), the path ends exactly when u >= q, and a path that
\* goes on carries the throughput divided by q into the BSDF update; q is
\* never 0 when it divides, and an all-zero throughput always ends the path.
C11_RussianRoulette ==
    \A t \in Threads :
        LET e == roulette[t]
            s == th[t]
        IN  /\ e.played =>
                  /\ phase \in {"global", "caustic"}
                  /\ e.k > 0
                  /\ ValidPower(e.before)
                  /\ FloatEq(e.q, LET x == MaxChannel(e.before)
                                  IN  IF x.inf = 0 /\ x.v < Scale THEN x ELSE One)
                  /\ (~e.u.nan) /\ 0 <= e.u.v /\ e.u.v < Scale
                  /\ e.ended <=> e.u.v >= e.q.v
                  /\ e.ended => s.pc = "idle"
                  /\ (\A c \in 1..3 : FloatEq(e.before[c], Zero)) => e.ended
                  /\ ~e.ended =>
                        /\ e.q.v > 0
                        /\ \A c \in 1..3 :
                              /\ ~e.after[c].nan
                              /\ e.after[c].inf = e.before[c].inf
                              /\ e.after[c].neg = e.before[c].neg
                              /\ e.after[c].v * e.q.v = e.before[c].v * Scale
                        /\ s.pc # "idle" =>
                              /\ s.k = e.k + 1
                              /\ s.throughput \in Scattered(e.after)
            /\ (s.pc # "idle" /\ s.k <= 1) => ~e.played
            /\ (s.pc # "idle" /\ s.k = 1) =>
                  \E le \in scene.Le : s.throughput \in Scattered(le)
            /\ (s.pc # "idle" /\ s.k >= 2) => (e.played /\ ~e.ended)

\* C11 witness: in the caustic pass a path went through bounce 0 without a
\* roulette, survived the roulette of bounce 1, and ended at the roulette of
\* bounce 2 with an all-zero throughput (q = 0).
C11_Witness ==
    /\ phase = "caustic"
    /\ \E t \in Threads :
          /\ roulette[t].played
          /\ roulette[t].ended
          /\ roulette[t].k = 2
          /\ roulette[t].before = Black
          /\ roulette[t].q = Zero

\* the loop iterations started so far, over both passes
PathsStarted ==
    IF phase = "init" THEN 0
    ELSE IF phase = "global" THEN Iterations(cfg.nPhotonsGlobal) - remaining
    ELSE IF phase = "globalBuilt" THEN Iterations(cfg.nPhotonsGlobal)
    ELSE IF phase = "caustic"
    THEN Iterations(cfg.nPhotonsGlobal) + Iterations(cfg.nPhotonsCaustics) - remaining
    ELSE IF cfg.finalGatheringDepth > 0
    THEN Iterations(cfg.nPhotonsGlobal) + Iterations(cfg.nPhotonsCaustics)
    ELSE Iterations(cfg.nPhotonsGlobal)

\* C12: a path whose throughput has a NaN or negative channel at the start of
\* a bounce goes no further: no thread is at the intersection result, the
\* deposit, the roulette or the BSDF sample with such a throughput, and what
\* was deposited or put to the roulette was valid.  A path prints at most one
\* diagnostic.  Whatever was printed, each map is set and built once after
\* all iterations of its loop were started and have ended.
C12_InvalidThroughputEndsPath ==
    /\ \A t \in Threads :
          /\ th[t].pc \in {"lock", "crit", "scatter"} => ValidPower(th[t].throughput)
          /\ AllValid(deps[t])
          /\ roulette[t].played => ValidPower(roulette[t].before)
    /\ cout.nan + cout.minus <= PathsStarted
    /\ phase = "globalBuilt" =>
          /\ remaining = 0
          /\ \A t \in Threads : th[t].pc = "idle"
          /\ globalPhotonMap.nSet = 1 /\ globalPhotonMap.nBuild = 1
    /\ phase = "built" =>
          /\ remaining = 0
          /\ \A t \in Threads : th[t].pc = "idle"
          /\ globalPhotonMap.nSet = 1 /\ globalPhotonMap.nBuild = 1
          /\ cfg.finalGatheringDepth > 0 =>
                causticsPhotonMap.nSet = 1 /\ causticsPhotonMap.nBuild = 1

\* C12 witness: build() returned after both diagnostics were printed; in each
\* pass another path was traced to a deposit and the pass's map holds it.
C12_Witness ==
    /\ phase = "built"
    /\ cout.nan >= 1
    /\ cout.minus >= 1
    /\ globalPhotonMap.photons # <<>>
    /\ causticsPhotonMap.photons # <<>>
    /\ globalPhotonMap.nBuild = 1
    /\ causticsPhotonMap.nBuild = 1

\* the hit of the ray a frame of integrateRecursive was called with
HitOf(i) == Intersect(scene, stack[i].ray)

GatherFrames == {i \in 1..Len(stack) : stack[i].fn = "gather"}

\* C13: a frame of integrateRecursive that is in its diffuse branch is at a
\* Diffuse hit that is no emitter, with depth < maxDepth and depth below
\* finalGatheringDepth; it computed Ld and Lc and started one final gather at
\* gather depth 0, whatever its own depth; no frame of integrateRecursive
\* lies above it, and every frame below it is at a Specular hit.  The latest
\* diffuse hit was shaded with Lg alone exactly when its depth was at least
\* finalGatheringDepth, and else with Ld + Lc + Li and one gather from depth 0.
C13_DiffuseBranch ==
    /\ \A i \in 1..Len(stack) :
          /\ stack[i].fn = "integrate" =>
                \A j \in 1..(i - 1) :
                    /\ stack[j].fn = "integrate"
                    /\ stack[j].stage = "loop"
                    /\ HitOf(j).type = "SPECULAR"
          /\ (stack[i].fn = "integrate" /\ stack[i].stage = "gather") =>
                /\ HitOf(i).hit /\ HitOf(i).type = "DIFFUSE" /\ ~HasAreaLight(HitOf(i))
                /\ stack[i].depth < cfg.maxDepth
                /\ stack[i].depth < cfg.finalGatheringDepth
                /\ stack[i].depth = i - 1
                /\ shade.depth = stack[i].depth
                /\ {"Ld", "Lc"} \subseteq shade.terms
                /\ CausticQueries # {}
                /\ \A j \in (i + 1)..Len(stack) :
                      /\ stack[j].fn = "gather"
                      /\ stack[j].depth = j - (i + 1)
                /\ i < Len(stack) => stack[i + 1].pos = HitOf(i).pos
          /\ stack[i].fn = "gather" =>
                /\ i > 1
                /\ stack[i - 1].fn = "integrate" => stack[i - 1].stage = "gather"
    /\ GatherFrames # {} => shade.terms = {"Ld", "Lc"}
    /\ shade # NoShade =>
          /\ 0 <= shade.depth /\ shade.depth < cfg.maxDepth
          /\ IF shade.depth >= cfg.finalGatheringDepth
             THEN shade.terms = {"Lg"} /\ shade.gather = <<>>
             ELSE /\ shade.terms \in {{"Ld", "Lc"}, {"Ld", "Lc", "Li"}}
                  /\ shade.gather = <<0>>

\* C13 witness: a Diffuse hit behind one Specular bounce (depth 1, below
\* finalGatheringDepth 2) was shaded with Ld + Lc + Li; its one gather started
\* at gather depth 0, and the caustics map and the global map were queried.
C13_Witness ==
    /\ cfg.finalGatheringDepth = 2
    /\ shade.depth = 1
    /\ shade.terms = {"Ld", "Lc", "Li"}
    /\ shade.gather = <<0>>
    /\ CausticQueries # {}
    /\ GlobalQueries # {}

IntegrateFrames == {i \in 1..Len(stack) : stack[i].fn = "integrate"}

\* the depths on the call stack: integrateRecursive is entered with depth 0
\* and calls itself with depth + 1; the gather is entered with depth 0 above
\* the frames of integrateRecursive and calls itself with depth + 1 at a
\* Specular hit; a frame that got past its first statement has
\* depth < maxDepth, so no frame has a depth above maxDepth
RecursionBounded ==
    \A i \in 1..Len(stack) :
        /\ stack[i].fn = "integrate" => stack[i].depth = i - 1
        /\ stack[i].fn = "gather" =>
              /\ stack[i].depth = i - 1 - Cardinality(IntegrateFrames)
              /\ stack[i].depth > 0 => HitOf(i).type = "SPECULAR"
        /\ 0 <= stack[i].depth /\ stack[i].depth <= cfg.maxDepth
        /\ stack[i].stage # "enter" => stack[i].depth < cfg.maxDepth
        /\ i < Len(stack) => stack[i].stage # "enter"

\* C14: every call of integrate() returns, in every scene, whatever the
\* samples: the depths on the call stack are bounded as RecursionBounded
\* says, and a call that has started has eventually returned.
C14_IntegrateTerminates ==
    /\ []RecursionBounded
    /\ (stack # <<>>) ~> (stack = <<>>)

\* C14 witness: in a closed scene of Specular surfaces only, where no ray
\* leaves the scene and none is absorbed, integrateRecursive is entered with
\* depth = maxDepth at the end of a chain of maxDepth nested calls.
C14_Witness ==
    /\ scene.closed
    /\ \A p \in DOMAIN scene.mat : scene.mat[p] = "SPECULAR"
    /\ cfg.maxDepth = RenderDepth
    /\ Len(stack) = cfg.maxDepth + 1
    /\ Top.fn = "integrate"
    /\ Top.stage = "enter"
    /\ Top.depth = cfg.maxDepth

====
